---------------------------- MODULE Spec2Model ----------------------------
(***************************************************************************)
(* A model of the Driver_USB repository: the RAM accountant and the        *)
(* spooling queue of DeviceDriverSimulator.py, the block devices of        *)
(* InternalMemoryDevice.py and RemovableMemoryDevice.py, and the threaded  *)
(* I/O manager with its USB driver of Driver_USB.py.                       *)
(*                                                                         *)
(* Each component has its own variables and its own specification          *)
(* (SpecRAM, SpecSim, SpecMem, SpecRem, SpecUSB); a specification leaves   *)
(* the other components' variables unchanged. SpecRAMConc, SpecSimConc and *)
(* SpecMemConc follow the same classes called from several threads,        *)
(* statement by statement; SpecBlock runs the two block devices together;  *)
(* SpecUSBLive adds the scheduling of the worker thread and                *)
(* SpecUSBTwoDrivers a second driver on the interrupt table.               *)
(***************************************************************************)
EXTENDS Integers, Sequences, FiniteSets

VARIABLES
    \* ---- DeviceDriverSimulator.RAMManager, used on its own ----
    ram_used,        \* RAMManager.used
    ram_call,        \* history: the last call, its argument, used before it, its result
    \* ---- DeviceDriverSimulator ----
    io_queue,        \* DeviceDriverSimulator.io_queue, head first
    dev_busy,        \* Device.busy of the devices that have the attribute
    dev_buffer,      \* Device.buffer of the same devices
    sim_ram_used,    \* DeviceDriverSimulator.ram.used
    in_service,      \* per device: the handle_io calls that are between the end of
                     \* _device_driver and their _interrupt_handler
    sim_last,        \* history: the last call of the simulator and its outcome
    buf_allocated,   \* history: per device, the bytes ram.allocate granted to the
                     \* request in service (0 when it refused)
    \* ---- InternalMemoryDevice ----
    mem_storage,     \* InternalMemoryDevice.storage, indexed from 0
    mem_block_state, \* InternalMemoryDevice.block_state
    mem_cache,       \* InternalMemoryDevice.cache (an OrderedDict): a sequence of
                     \* [key, data], least recently used first
    mem_last,        \* history: the last call, its arguments and what it returned
    mem_written,     \* history: per block, the data of the last successful write_block
    mem_touched,     \* history: the blocks of the successful calls, by recency
    \* ---- RemovableMemoryDevice ----
    rem_inserted,    \* RemovableMemoryDevice.inserted
    rem_storage,     \* RemovableMemoryDevice.storage
    rem_block_state, \* RemovableMemoryDevice.block_state
    rem_last,        \* history: the last call, its outcome, whether it slept
    \* ---- Driver_USB: InterruptTable, USBDriver, DeviceDriverTable, IOManager ----
    interrupt_handlers, \* InterruptTable.interrupt_handlers: event -> driver (0: none)
    is_connected,    \* DeviceControlBlock.is_connected of each driver's block
    drivers,         \* DeviceDriverTable.drivers: device_id -> driver (0: none)
    operation_queue, \* IOManager.operation_queue, head first
    unfinished_tasks,\* Queue.unfinished_tasks of operation_queue
    running,         \* IOManager.running
    w_pc,            \* the worker thread's position in IOManager.run
    w_cur,           \* the (device_id, io_op) the worker took from the queue
    next_id,         \* identity of the next IOOPeration object created
    op_outcome,      \* history: what the worker reported for each operation
    removed_midflight, \* history: the operations during whose transfer USB_REMOVE
                     \* was handled by the driver performing them
    last_hotplug,    \* history: the last hot-plug event a handler handled
    pending_at_stop, \* history: the operations that were in the queue at a call of stop
    deliver_log,     \* history: the operations in the order the worker took them
    last_built,      \* history: the USBDriver constructed last
    stopped_midflight, \* history: the operations during whose transfer stop was called
    \* ---- threads calling RAMManager.allocate and free ----
    rc_pc,           \* per thread: its position in allocate or free
    rc_amount,       \* per thread: the amount argument of its call
    rc_local,        \* per thread: the value of self.used it has read
    \* ---- threads calling DeviceDriverSimulator.handle_io ----
    hc_pc,           \* per thread: its position in handle_io
    hc_req,          \* per thread: the request it took from io_queue
    \* ---- DeviceDriverSimulator.run ----
    run_pc,          \* the position of the run call: not started, in its loop,
                     \* returned, or left by an exception
    run_calls,       \* history: the handle_io calls run has made
    run_initial,     \* history: len(io_queue) when run was called
    busy_outside,    \* history: a busy flag was set by code outside the simulator
    \* ---- threads calling InternalMemoryDevice.read_block and write_block ----
    mem_lock,        \* InternalMemoryDevice.lock: the thread holding it, 0 when free
    mc_pc,           \* per thread: its position in read_block or write_block
    mc_arg           \* per thread: the block_num and data of a write_block under way

ramVars == <<ram_used, ram_call>>
ramConcVars == <<rc_pc, rc_amount, rc_local>>
simConcVars == <<hc_pc, hc_req>>
memConcVars == <<mem_lock, mc_pc, mc_arg>>
runVars == <<run_pc, run_calls, run_initial, busy_outside>>
concVars == <<ramConcVars, simConcVars, memConcVars, runVars>>
simVars == <<io_queue, dev_busy, dev_buffer, sim_ram_used, in_service, sim_last,
             buf_allocated>>
memVars == <<mem_storage, mem_block_state, mem_cache, mem_last, mem_written, mem_touched>>
remVars == <<rem_inserted, rem_storage, rem_block_state, rem_last>>
usbVars == <<interrupt_handlers, is_connected, drivers, operation_queue, unfinished_tasks,
             running, w_pc, w_cur, next_id, op_outcome, removed_midflight,
             last_hotplug, pending_at_stop, deliver_log, last_built,
             stopped_midflight>>
vars == <<ramVars, simVars, memVars, remVars, usbVars, concVars>>

Min(a, b) == IF a <= b THEN a ELSE b
Max(a, b) == IF a >= b THEN a ELSE b

\* Python's s[:n] for n >= 0.
Prefix(s, n) == SubSeq(s, 1, Min(Len(s), n))

(***************************************************************************)
(* DeviceDriverSimulator.RAMManager                                        *)
(***************************************************************************)

\* RAMManager(size): the size of the accountant checked on its own.
RamSize == 5
\* The amounts the callers pass: up to twice the size, so that a request
\* larger than the whole memory (size 1024, allocate(2048)) is among them.
Amounts == 0..(2 * RamSize)

\* allocate with the capacity test off by one (>= for >).
RAMManager_allocate_OffByOne(used, size, amount) ==
    IF used + amount >= size
    THEN [ok |-> FALSE, used |-> used]
    ELSE [ok |-> TRUE, used |-> used + amount]

\* RAMManager.allocate: the returned boolean and the new value of used.
RAMManager_allocate(used, size, amount) ==
    IF used + amount > size
    THEN [ok |-> FALSE, used |-> used]
    ELSE [ok |-> TRUE, used |-> used + amount]

\* free without the floor at zero.
RAMManager_free_NoFloor(used, amount) == used - amount

\* RAMManager.free: the new value of used, max(0, used - amount).
RAMManager_free(used, amount) == Max(0, used - amount)

InitRAM ==
    /\ ram_used = 0
    /\ ram_call = [op |-> "init", amount |-> 0, before |-> 0, ret |-> TRUE]

Allocate(amount) ==
    LET r == RAMManager_allocate(ram_used, RamSize, amount) IN
    /\ ram_used' = r.used
    /\ ram_call' = [op |-> "allocate", amount |-> amount, before |-> ram_used, ret |-> r.ok]
    /\ UNCHANGED <<simVars, memVars, remVars, usbVars, concVars>>

Free(amount) ==
    /\ ram_used' = RAMManager_free(ram_used, amount)
    /\ ram_call' = [op |-> "free", amount |-> amount, before |-> ram_used, ret |-> TRUE]
    /\ UNCHANGED <<simVars, memVars, remVars, usbVars, concVars>>

NextRAM ==
    \/ \E amount \in Amounts : Allocate(amount)
    \/ \E amount \in Amounts : Free(amount)

(***************************************************************************)
(* RAMManager called from several threads. The class has no lock: a thread *)
(* switch can fall between the test of allocate and its "self.used +=      *)
(* amount", and inside that statement and the assignment of free between   *)
(* the read of self.used and the store of the new value.                   *)
(***************************************************************************)

\* The threads that call allocate and free.
RamThreads == {1, 2}
\* The amounts they pass: one unit, and the whole memory.
ConcAmounts == {1, RamSize}
\* The runs are followed as long as used is at most this: unsynchronised
\* threads can raise used past any value.
RamUsedCap == 2 * RamSize

InitRAMConc ==
    /\ rc_pc = [t \in RamThreads |-> "idle"]
    /\ rc_amount = [t \in RamThreads |-> 0]
    /\ rc_local = [t \in RamThreads |-> 0]

\* allocate: "if self.used + amount > self.size: return False".
AllocateTest(t, amount) ==
    /\ rc_pc[t] = "idle"
    /\ IF ram_used + amount > RamSize
       THEN /\ ram_call' = [op |-> "allocate", amount |-> amount, before |-> ram_used,
                             ret |-> FALSE]
            /\ UNCHANGED <<rc_pc, rc_amount>>
       ELSE /\ rc_pc' = [rc_pc EXCEPT ![t] = "a_load"]
            /\ rc_amount' = [rc_amount EXCEPT ![t] = amount]
            /\ UNCHANGED ram_call
    /\ UNCHANGED <<ram_used, rc_local>>
    /\ UNCHANGED <<simVars, memVars, remVars, usbVars, simConcVars, memConcVars, runVars>>

\* allocate: "self.used += amount", the read of self.used.
AllocateLoad(t) ==
    /\ rc_pc[t] = "a_load"
    /\ rc_local' = [rc_local EXCEPT ![t] = ram_used]
    /\ rc_pc' = [rc_pc EXCEPT ![t] = "a_store"]
    /\ UNCHANGED <<ram_used, ram_call, rc_amount>>
    /\ UNCHANGED <<simVars, memVars, remVars, usbVars, simConcVars, memConcVars, runVars>>

\* allocate: "self.used += amount", the store of the sum; return True.
AllocateStore(t) ==
    /\ rc_pc[t] = "a_store"
    /\ rc_local[t] + rc_amount[t] <= RamUsedCap
    /\ ram_used' = rc_local[t] + rc_amount[t]
    /\ ram_call' = [op |-> "allocate", amount |-> rc_amount[t], before |-> ram_used,
                     ret |-> TRUE]
    /\ rc_pc' = [rc_pc EXCEPT ![t] = "idle"]
    /\ rc_amount' = [rc_amount EXCEPT ![t] = 0]
    /\ rc_local' = [rc_local EXCEPT ![t] = 0]
    /\ UNCHANGED <<simVars, memVars, remVars, usbVars, simConcVars, memConcVars, runVars>>

\* free: "self.used = max(0, self.used - amount)", the read of self.used.
FreeLoad(t, amount) ==
    /\ rc_pc[t] = "idle"
    /\ rc_local' = [rc_local EXCEPT ![t] = ram_used]
    /\ rc_amount' = [rc_amount EXCEPT ![t] = amount]
    /\ rc_pc' = [rc_pc EXCEPT ![t] = "f_store"]
    /\ UNCHANGED <<ram_used, ram_call>>
    /\ UNCHANGED <<simVars, memVars, remVars, usbVars, simConcVars, memConcVars, runVars>>

\* free: "self.used = max(0, self.used - amount)", the store.
FreeStore(t) ==
    /\ rc_pc[t] = "f_store"
    /\ ram_used' = RAMManager_free(rc_local[t], rc_amount[t])
    /\ ram_call' = [op |-> "free", amount |-> rc_amount[t], before |-> ram_used,
                     ret |-> TRUE]
    /\ rc_pc' = [rc_pc EXCEPT ![t] = "idle"]
    /\ rc_amount' = [rc_amount EXCEPT ![t] = 0]
    /\ rc_local' = [rc_local EXCEPT ![t] = 0]
    /\ UNCHANGED <<simVars, memVars, remVars, usbVars, simConcVars, memConcVars, runVars>>

NextRAMConc ==
    \/ \E t \in RamThreads, amount \in ConcAmounts : AllocateTest(t, amount)
    \/ \E t \in RamThreads : AllocateLoad(t)
    \/ \E t \in RamThreads : AllocateStore(t)
    \/ \E t \in RamThreads, amount \in ConcAmounts : FreeLoad(t, amount)
    \/ \E t \in RamThreads : FreeStore(t)

(***************************************************************************)
(* DeviceDriverSimulator: the spooling queue, the devices' busy flags and  *)
(* buffers, and the RAM that accounts for the buffers.                     *)
(*                                                                         *)
(* handle_io is one step up to the end of _device_driver; the completion   *)
(* interrupt (_interrupt_handler) is a second step of the same call.       *)
(* Between the two the device is busy, and another caller's handle_io or   *)
(* enqueue_io may run: that is how a request comes to meet a busy device.  *)
(***************************************************************************)

\* DeviceDriverSimulator(queue_size=...), the deque's maxlen.
IO_QUEUE_SIZE == 2
\* DeviceDriverSimulator(buffer_size=...).
BUFFER_SIZE == 1
\* DeviceDriverSimulator(ram_size=...): room for one read buffer, not for two.
SimRamSize == 16

\* self.devices: index 0 is the InternalMemoryDevice, 1 the
\* RemovableMemoryDevice, 2 the KeyboardDriverSimulator.
NumDevices == 3
DeviceIds == 0..(NumDevices - 1)
\* The devices that derive from DeviceDriverSimulator.Device and so have
\* busy and buffer; InternalMemoryDevice (index 0) has neither attribute.
DeviceSubclasses == {1, 2}
\* An index past the end of self.devices.
NoDevice == NumDevices

\* The string literal "Simulated input" that a read puts into the buffer.
SimulatedInput ==
    <<"S", "i", "m", "u", "l", "a", "t", "e", "d", " ", "i", "n", "p", "u", "t">>

\* IORequest(device_id, operation, data).
IORequest(device_id, operation, data) ==
    [device_id |-> device_id, operation |-> operation, data |-> data]

\* The requests the callers make: reads and writes (longer than the buffer)
\* on the two Device subclasses, an operation that is neither read nor write,
\* a request for the InternalMemoryDevice and one for a device that is not
\* in the list.
Requests ==
    {IORequest(1, "read", <<>>), IORequest(1, "write", <<"a", "b">>),
     IORequest(1, "erase", <<>>),
     IORequest(2, "read", <<>>), IORequest(2, "write", <<"b", "a">>),
     IORequest(0, "read", <<>>), IORequest(NoDevice, "read", <<>>)}

\* deque.append on a deque(maxlen=n): a full deque drops its head.
deque_append(q, n, x) ==
    IF n = 0 THEN q
    ELSE IF Len(q) >= n THEN Append(Tail(q), x)
    ELSE Append(q, x)

\* enqueue_io without the queue-full test.
enqueue_io_NoCheck(q, device_id, operation, data) ==
    [queue |-> deque_append(q, IO_QUEUE_SIZE, IORequest(device_id, operation, data)),
     outcome |-> IF device_id \in DeviceIds THEN "enqueued" ELSE "IndexError"]

\* enqueue_io: the queue after the call and how the call ended. The print
\* after the append reads self.devices[device_id].name and raises
\* IndexError for an index past the list, with the request already appended.
enqueue_io(q, device_id, operation, data) ==
    IF Len(q) >= IO_QUEUE_SIZE
    THEN [queue |-> q, outcome |-> "rejected"]
    ELSE [queue |-> deque_append(q, IO_QUEUE_SIZE, IORequest(device_id, operation, data)),
          outcome |-> IF device_id \in DeviceIds THEN "enqueued" ELSE "IndexError"]

\* The busy branch of handle_io returning without the enqueue_io call.
handle_io_busy_Drop(q) == Tail(q)

\* The busy branch of handle_io: the queue after the popleft and the
\* enqueue_io of the request that was popped.
handle_io_busy(q) ==
    LET req == Head(q) IN enqueue_io(Tail(q), req.device_id, req.operation, req.data).queue

\* _device_driver: the device's buffer after it.
device_driver_buffer(buffer, req) ==
    IF req.operation = "write" THEN Prefix(req.data, BUFFER_SIZE)
    ELSE IF req.operation = "read" THEN SimulatedInput
    ELSE buffer

\* _device_driver: ram.used after it (allocate(len(dev.buffer)) on a read
\* or a write, whose result only selects a print).
device_driver_ram(used, buffer, req) ==
    IF req.operation \in {"write", "read"}
    THEN RAMManager_allocate(used, SimRamSize, Len(device_driver_buffer(buffer, req))).used
    ELSE used

InitSim ==
    /\ io_queue = <<>>
    /\ dev_busy = [d \in DeviceSubclasses |-> FALSE]
    /\ dev_buffer = [d \in DeviceSubclasses |-> <<>>]
    /\ sim_ram_used = 0
    /\ in_service = [d \in DeviceSubclasses |-> 0]
    /\ sim_last = [op |-> "init", outcome |-> "init"]
    /\ buf_allocated = [d \in DeviceSubclasses |-> 0]

EnqueueIO(device_id, operation, data) ==
    LET r == enqueue_io(io_queue, device_id, operation, data) IN
    /\ io_queue' = r.queue
    /\ sim_last' = [op |-> "enqueue_io", outcome |-> r.outcome]
    /\ UNCHANGED <<dev_busy, dev_buffer, sim_ram_used, in_service, buf_allocated>>
    /\ UNCHANGED <<ramVars, memVars, remVars, usbVars, concVars>>

\* handle_io up to the end of _device_driver.
HandleIO ==
    /\ \/ \* the queue is empty: a message, nothing else
          /\ io_queue = <<>>
          /\ sim_last' = [op |-> "handle_io", outcome |-> "empty"]
          /\ UNCHANGED <<io_queue, dev_busy, dev_buffer, sim_ram_used, in_service,
                         buf_allocated>>
       \/ \* self.devices[req.device_id] raises IndexError after the popleft
          /\ io_queue # <<>>
          /\ Head(io_queue).device_id \notin DeviceIds
          /\ io_queue' = Tail(io_queue)
          /\ sim_last' = [op |-> "handle_io", outcome |-> "IndexError"]
          /\ UNCHANGED <<dev_busy, dev_buffer, sim_ram_used, in_service, buf_allocated>>
       \/ \* dev.busy raises AttributeError on the InternalMemoryDevice
          /\ io_queue # <<>>
          /\ Head(io_queue).device_id \in DeviceIds \ DeviceSubclasses
          /\ io_queue' = Tail(io_queue)
          /\ sim_last' = [op |-> "handle_io", outcome |-> "AttributeError"]
          /\ UNCHANGED <<dev_busy, dev_buffer, sim_ram_used, in_service, buf_allocated>>
       \/ \* the device is busy: the request goes back through enqueue_io
          /\ io_queue # <<>>
          /\ Head(io_queue).device_id \in DeviceSubclasses
          /\ dev_busy[Head(io_queue).device_id]
          /\ io_queue' = handle_io_busy(io_queue)
          /\ sim_last' = [op |-> "handle_io", outcome |-> "requeued"]
          /\ UNCHANGED <<dev_busy, dev_buffer, sim_ram_used, in_service, buf_allocated>>
       \/ \* the device is idle: _device_driver
          /\ io_queue # <<>>
          /\ Head(io_queue).device_id \in DeviceSubclasses
          /\ ~dev_busy[Head(io_queue).device_id]
          /\ LET req == Head(io_queue)
                 d == req.device_id
             IN  /\ io_queue' = Tail(io_queue)
                 /\ dev_busy' = [dev_busy EXCEPT ![d] = TRUE]
                 /\ dev_buffer' = [dev_buffer EXCEPT ![d] = device_driver_buffer(dev_buffer[d], req)]
                 /\ sim_ram_used' = device_driver_ram(sim_ram_used, dev_buffer[d], req)
                 /\ in_service' = [in_service EXCEPT ![d] = @ + 1]
                 /\ buf_allocated' =
                        [buf_allocated EXCEPT ![d] =
                            device_driver_ram(sim_ram_used, dev_buffer[d], req) - sim_ram_used]
          /\ sim_last' = [op |-> "handle_io", outcome |-> "driver"]
    /\ UNCHANGED <<ramVars, memVars, remVars, usbVars, concVars>>

\* _interrupt_handler(dev), the end of the handle_io call that is servicing
\* device d.
InterruptHandler(d) ==
    /\ in_service[d] > 0
    /\ sim_ram_used' = RAMManager_free(sim_ram_used, Len(dev_buffer[d]))
    /\ dev_buffer' = [dev_buffer EXCEPT ![d] = <<>>]
    /\ dev_busy' = [dev_busy EXCEPT ![d] = FALSE]
    /\ in_service' = [in_service EXCEPT ![d] = @ - 1]
    /\ sim_last' = [op |-> "interrupt", outcome |-> "completed"]
    /\ buf_allocated' = [buf_allocated EXCEPT ![d] = 0]
    /\ UNCHANGED io_queue
    /\ UNCHANGED <<ramVars, memVars, remVars, usbVars, concVars>>

NextSim ==
    \/ \E r \in Requests : EnqueueIO(r.device_id, r.operation, r.data)
    \/ HandleIO
    \/ \E d \in DeviceSubclasses : InterruptHandler(d)

(***************************************************************************)
(* handle_io called from several threads, statement by statement: the test *)
(* of dev.busy in handle_io and the assignment dev.busy = True in          *)
(* _device_driver are separate statements with no lock around them.        *)
(***************************************************************************)

\* The threads that call handle_io.
HandleCallers == {1, 2}
\* hc_req of a thread that holds no request.
NoRequest == IORequest(NoDevice, "none", <<>>)

\* The requests of the threaded runs: the reads.
ConcRequests == {r \in Requests : r.operation = "read"}

InitSimConc ==
    /\ hc_pc = [t \in HandleCallers |-> "idle"]
    /\ hc_req = [t \in HandleCallers |-> NoRequest]

\* handle_io: the test of the queue, popleft and self.devices[req.device_id].
CallerPop(t) ==
    /\ hc_pc[t] = "idle"
    /\ IF io_queue = <<>>
       THEN /\ sim_last' = [op |-> "handle_io", outcome |-> "empty"]
            /\ UNCHANGED <<io_queue, hc_pc, hc_req>>
       ELSE /\ io_queue' = Tail(io_queue)
            /\ IF Head(io_queue).device_id \notin DeviceIds
               THEN /\ sim_last' = [op |-> "handle_io", outcome |-> "IndexError"]
                    /\ UNCHANGED <<hc_pc, hc_req>>
               ELSE /\ hc_pc' = [hc_pc EXCEPT ![t] = "check"]
                    /\ hc_req' = [hc_req EXCEPT ![t] = Head(io_queue)]
                    /\ UNCHANGED sim_last
    /\ UNCHANGED <<dev_busy, dev_buffer, sim_ram_used, in_service, buf_allocated>>
    /\ UNCHANGED <<ramVars, memVars, remVars, usbVars, ramConcVars, memConcVars, runVars>>

\* handle_io: "if dev.busy", with the enqueue_io of its busy branch.
CallerCheck(t) ==
    /\ hc_pc[t] = "check"
    /\ LET req == hc_req[t] IN
       IF req.device_id \notin DeviceSubclasses
       THEN /\ sim_last' = [op |-> "handle_io", outcome |-> "AttributeError"]
            /\ hc_pc' = [hc_pc EXCEPT ![t] = "idle"]
            /\ hc_req' = [hc_req EXCEPT ![t] = NoRequest]
            /\ UNCHANGED io_queue
       ELSE IF dev_busy[req.device_id]
       THEN /\ io_queue' = enqueue_io(io_queue, req.device_id, req.operation, req.data).queue
            /\ sim_last' = [op |-> "handle_io", outcome |-> "requeued"]
            /\ hc_pc' = [hc_pc EXCEPT ![t] = "idle"]
            /\ hc_req' = [hc_req EXCEPT ![t] = NoRequest]
       ELSE /\ hc_pc' = [hc_pc EXCEPT ![t] = "driver"]
            /\ UNCHANGED <<io_queue, sim_last, hc_req>>
    /\ UNCHANGED <<dev_busy, dev_buffer, sim_ram_used, in_service, buf_allocated>>
    /\ UNCHANGED <<ramVars, memVars, remVars, usbVars, ramConcVars, memConcVars, runVars>>

\* handle_io: the call of _device_driver.
CallerDriver(t) ==
    /\ hc_pc[t] = "driver"
    /\ LET req == hc_req[t]
           d == req.device_id
       IN  /\ dev_busy' = [dev_busy EXCEPT ![d] = TRUE]
           /\ dev_buffer' = [dev_buffer EXCEPT ![d] = device_driver_buffer(dev_buffer[d], req)]
           /\ sim_ram_used' = device_driver_ram(sim_ram_used, dev_buffer[d], req)
           /\ in_service' = [in_service EXCEPT ![d] = @ + 1]
           /\ buf_allocated' =
                  [buf_allocated EXCEPT ![d] =
                      device_driver_ram(sim_ram_used, dev_buffer[d], req) - sim_ram_used]
    /\ sim_last' = [op |-> "handle_io", outcome |-> "driver"]
    /\ hc_pc' = [hc_pc EXCEPT ![t] = "interrupt"]
    /\ UNCHANGED <<io_queue, hc_req>>
    /\ UNCHANGED <<ramVars, memVars, remVars, usbVars, ramConcVars, memConcVars, runVars>>

\* handle_io: the call of _interrupt_handler, and the return.
CallerInterrupt(t) ==
    /\ hc_pc[t] = "interrupt"
    /\ LET d == hc_req[t].device_id
       IN  /\ sim_ram_used' = RAMManager_free(sim_ram_used, Len(dev_buffer[d]))
           /\ dev_buffer' = [dev_buffer EXCEPT ![d] = <<>>]
           /\ dev_busy' = [dev_busy EXCEPT ![d] = FALSE]
           /\ in_service' = [in_service EXCEPT ![d] = @ - 1]
           /\ buf_allocated' = [buf_allocated EXCEPT ![d] = 0]
    /\ sim_last' = [op |-> "interrupt", outcome |-> "completed"]
    /\ hc_pc' = [hc_pc EXCEPT ![t] = "idle"]
    /\ hc_req' = [hc_req EXCEPT ![t] = NoRequest]
    /\ UNCHANGED io_queue
    /\ UNCHANGED <<ramVars, memVars, remVars, usbVars, ramConcVars, memConcVars, runVars>>

NextSimConc ==
    \/ \E r \in ConcRequests : EnqueueIO(r.device_id, r.operation, r.data)
    \/ \E t \in HandleCallers : CallerPop(t)
    \/ \E t \in HandleCallers : CallerCheck(t)
    \/ \E t \in HandleCallers : CallerDriver(t)
    \/ \E t \in HandleCallers : CallerInterrupt(t)

(***************************************************************************)
(* DeviceDriverSimulator.run: "while self.io_queue: self.handle_io()" in   *)
(* one thread. A handle_io call runs from its popleft to the end of        *)
(* _interrupt_handler with no other caller in between; an exception out of *)
(* handle_io leaves run.                                                   *)
(***************************************************************************)

\* The requests queued before run is called: those for the devices in the list.
RunRequests == {r \in Requests : r.device_id \in DeviceIds}
\* The handle_io calls a run is followed for: a run that keeps meeting a busy
\* device goes on with no end.
MaxRunCalls == 2 * IO_QUEUE_SIZE + 1

InitRun ==
    /\ run_pc = "idle"
    /\ run_calls = 0
    /\ run_initial = 0
    /\ busy_outside = FALSE

\* A request is queued before run is called.
RunEnqueue(device_id, operation, data) ==
    /\ run_pc = "idle"
    /\ EnqueueIO(device_id, operation, data)

\* Code outside the simulator sets the busy attribute of a device.
SetBusyOutside(d) ==
    /\ dev_busy' = [dev_busy EXCEPT ![d] = TRUE]
    /\ busy_outside' = TRUE
    /\ UNCHANGED <<io_queue, dev_buffer, sim_ram_used, in_service, sim_last, buf_allocated>>
    /\ UNCHANGED <<run_pc, run_calls, run_initial>>
    /\ UNCHANGED <<ramVars, memVars, remVars, usbVars, ramConcVars, simConcVars, memConcVars>>

\* run is called.
RunStart ==
    /\ run_pc = "idle"
    /\ run_pc' = "loop"
    /\ run_initial' = Len(io_queue)
    /\ UNCHANGED <<run_calls, busy_outside>>
    /\ UNCHANGED <<ramVars, simVars, memVars, remVars, usbVars, ramConcVars, simConcVars,
                   memConcVars>>

\* run: the test of the while loop finds the queue empty and run returns.
RunReturn ==
    /\ run_pc = "loop"
    /\ io_queue = <<>>
    /\ run_pc' = "done"
    /\ UNCHANGED <<run_calls, run_initial, busy_outside>>
    /\ UNCHANGED <<ramVars, simVars, memVars, remVars, usbVars, ramConcVars, simConcVars,
                   memConcVars>>

\* run: one pass of the loop, a whole handle_io call.
RunHandleIO ==
    /\ run_pc = "loop"
    /\ io_queue # <<>>
    /\ run_calls < MaxRunCalls
    /\ run_calls' = run_calls + 1
    /\ LET req == Head(io_queue)
           d == req.device_id
       IN  IF d \notin DeviceIds
           THEN \* self.devices[req.device_id] raises IndexError
                /\ io_queue' = Tail(io_queue)
                /\ sim_last' = [op |-> "handle_io", outcome |-> "IndexError"]
                /\ run_pc' = "raised"
                /\ UNCHANGED <<dev_busy, dev_buffer, sim_ram_used>>
           ELSE IF d \notin DeviceSubclasses
           THEN \* dev.busy raises AttributeError
                /\ io_queue' = Tail(io_queue)
                /\ sim_last' = [op |-> "handle_io", outcome |-> "AttributeError"]
                /\ run_pc' = "raised"
                /\ UNCHANGED <<dev_busy, dev_buffer, sim_ram_used>>
           ELSE IF dev_busy[d]
           THEN /\ io_queue' = handle_io_busy(io_queue)
                /\ sim_last' = [op |-> "handle_io", outcome |-> "requeued"]
                /\ UNCHANGED <<run_pc, dev_busy, dev_buffer, sim_ram_used>>
           ELSE \* _device_driver, then _interrupt_handler
                /\ io_queue' = Tail(io_queue)
                /\ sim_ram_used' =
                       RAMManager_free(device_driver_ram(sim_ram_used, dev_buffer[d], req),
                                       Len(device_driver_buffer(dev_buffer[d], req)))
                /\ dev_buffer' = [dev_buffer EXCEPT ![d] = <<>>]
                /\ dev_busy' = [dev_busy EXCEPT ![d] = FALSE]
                /\ sim_last' = [op |-> "interrupt", outcome |-> "completed"]
                /\ UNCHANGED run_pc
    /\ UNCHANGED <<in_service, buf_allocated, run_initial, busy_outside>>
    /\ UNCHANGED <<ramVars, memVars, remVars, usbVars, ramConcVars, simConcVars, memConcVars>>

NextRun ==
    \/ \E r \in RunRequests : RunEnqueue(r.device_id, r.operation, r.data)
    \/ \E d \in DeviceSubclasses : SetBusyOutside(d)
    \/ RunStart
    \/ RunReturn
    \/ RunHandleIO

(***************************************************************************)
(* InternalMemoryDevice: block storage behind an LRU cache.                *)
(* A call runs under self.lock from its first to its last statement, so    *)
(* each call is one step. The draw of simulate_failure is an input.        *)
(***************************************************************************)

\* total_blocks = capacity // block_size.
MemTotalBlocks == 3
\* InternalMemoryDevice(block_size=...).
MemBlockSize == 1
\* InternalMemoryDevice(cache_size=...), at least 1.
CacheSize == 2

MemBlocks == 0..(MemTotalBlocks - 1)
\* The block_num arguments: every block and the first index out of range.
MemBlockArgs == 0..MemTotalBlocks
\* The block_num arguments of the runs with several threads or with both
\* devices: two blocks and the first index out of range.
TwoBlockArgs == {0, 1, MemTotalBlocks}
\* The data arguments of write_block: the empty string and more than a block.
MemWriteData == {<<>>, <<"a", "b">>}
\* What read_block returns on a simulated failure.
BlockReadFailure == <<"[BLOCK READ FAILURE]">>

\* k in cache (OrderedDict.__contains__).
cache_has(cache, k) == \E i \in 1..Len(cache) : cache[i].key = k
\* cache[k].
cache_get(cache, k) == cache[CHOOSE i \in 1..Len(cache) : cache[i].key = k].data
\* list(cache.keys()), least recently used first.
cache_keys(cache) == [i \in 1..Len(cache) |-> cache[i].key]
\* The cache after cache.move_to_end(k).
move_to_end(cache, k) ==
    LET IsOther(e) == e.key # k
        entry == cache[CHOOSE i \in 1..Len(cache) : cache[i].key = k]
    IN  Append(SelectSeq(cache, IsOther), entry)

\* _update_cache that leaves a present block where it is (first-in first-out).
update_cache_NoPromote(cache, block_num, data) ==
    IF cache_has(cache, block_num) THEN cache
    ELSE Append(IF Len(cache) >= CacheSize THEN Tail(cache) ELSE cache,
                [key |-> block_num, data |-> data])

\* _update_cache: the cache after it. A block that is present is moved to
\* the end and keeps the data it had; otherwise the first entry is popped
\* from a full cache and the block is added at the end.
update_cache(cache, block_num, data) ==
    IF cache_has(cache, block_num) THEN move_to_end(cache, block_num)
    ELSE Append(IF Len(cache) >= CacheSize THEN Tail(cache) ELSE cache,
                [key |-> block_num, data |-> data])

\* write_block assigning storage and block_state before its failure test.
mem_write_block_WriteThenFail(storage, block_state, cache, block_num, data, failure) ==
    IF block_num >= MemTotalBlocks
    THEN [storage |-> storage, block_state |-> block_state, cache |-> cache, ret |-> FALSE]
    ELSE [storage |-> [storage EXCEPT ![block_num] = Prefix(data, MemBlockSize)],
          block_state |-> [block_state EXCEPT ![block_num] = "used"],
          cache |-> IF failure THEN cache
                    ELSE update_cache(cache, block_num, Prefix(data, MemBlockSize)),
          ret |-> ~failure]

\* write_block: the device after the call and the returned boolean.
mem_write_block(storage, block_state, cache, block_num, data, failure) ==
    IF block_num >= MemTotalBlocks \/ failure
    THEN [storage |-> storage, block_state |-> block_state, cache |-> cache, ret |-> FALSE]
    ELSE [storage |-> [storage EXCEPT ![block_num] = Prefix(data, MemBlockSize)],
          block_state |-> [block_state EXCEPT ![block_num] = "used"],
          cache |-> update_cache(cache, block_num, Prefix(data, MemBlockSize)),
          ret |-> TRUE]

\* read_block: the cache after the call, the returned string, whether the
\* call got as far as the cache, and whether it found the block there.
mem_read_block(storage, cache, block_num, failure) ==
    IF block_num >= MemTotalBlocks
    THEN [cache |-> cache, ret |-> <<>>, ok |-> FALSE, hit |-> FALSE]
    ELSE IF failure
    THEN [cache |-> cache, ret |-> BlockReadFailure, ok |-> FALSE, hit |-> FALSE]
    ELSE IF cache_has(cache, block_num)
    THEN [cache |-> move_to_end(cache, block_num), ret |-> cache_get(cache, block_num),
          ok |-> TRUE, hit |-> TRUE]
    ELSE [cache |-> update_cache(cache, block_num, storage[block_num]),
          ret |-> storage[block_num], ok |-> TRUE, hit |-> FALSE]

\* History: the blocks touched so far by recency, after block b is touched.
Touch(touched, b) ==
    LET IsOther(x) == x # b IN Append(SelectSeq(touched, IsOther), b)

InitMem ==
    /\ mem_storage = [b \in MemBlocks |-> <<>>]
    /\ mem_block_state = [b \in MemBlocks |-> "free"]
    /\ mem_cache = <<>>
    /\ mem_last = [op |-> "init", block |-> 0, ok |-> TRUE, ret |-> <<>>, hit |-> FALSE]
    /\ mem_written = [b \in MemBlocks |-> [written |-> FALSE, data |-> <<>>]]
    /\ mem_touched = <<>>

MemWriteBlock(block_num, data, failure) ==
    LET r == mem_write_block(mem_storage, mem_block_state, mem_cache, block_num, data, failure) IN
    /\ mem_storage' = r.storage
    /\ mem_block_state' = r.block_state
    /\ mem_cache' = r.cache
    /\ mem_last' = [op |-> "write_block", block |-> block_num, ok |-> r.ret,
                    ret |-> <<>>, hit |-> FALSE]
    /\ mem_written' = IF r.ret
                      THEN [mem_written EXCEPT ![block_num] = [written |-> TRUE, data |-> data]]
                      ELSE mem_written
    /\ mem_touched' = IF r.ret THEN Touch(mem_touched, block_num) ELSE mem_touched
    /\ UNCHANGED <<ramVars, simVars, remVars, usbVars, concVars>>

MemReadBlock(block_num, failure) ==
    LET r == mem_read_block(mem_storage, mem_cache, block_num, failure) IN
    /\ mem_cache' = r.cache
    /\ mem_last' = [op |-> "read_block", block |-> block_num, ok |-> r.ok,
                    ret |-> r.ret, hit |-> r.hit]
    /\ mem_touched' = IF r.ok THEN Touch(mem_touched, block_num) ELSE mem_touched
    /\ UNCHANGED <<mem_storage, mem_block_state, mem_written>>
    /\ UNCHANGED <<ramVars, simVars, remVars, usbVars, concVars>>

NextMem ==
    \/ \E b \in MemBlockArgs, d \in MemWriteData, f \in BOOLEAN : MemWriteBlock(b, d, f)
    \/ \E b \in MemBlockArgs, f \in BOOLEAN : MemReadBlock(b, f)

(***************************************************************************)
(* InternalMemoryDevice called from several threads. Both methods run      *)
(* their whole body inside "with self.lock"; write_block is followed       *)
(* statement by statement (storage, block_state, cache), so that a thread  *)
(* entering in the middle of it would see a device that is half written.   *)
(***************************************************************************)

\* The threads that call read_block and write_block.
MemThreads == {1, 2}
\* mc_arg of a thread that is not inside write_block.
NoWrite == [block |-> MemTotalBlocks, data |-> <<>>]

\* A lock that lets every thread in.
lock_can_acquire_Always(lock) == TRUE

\* threading.Lock: "with self.lock" enters when no thread holds the lock.
lock_can_acquire(lock) == lock = 0

InitMemConc ==
    /\ mem_lock = 0
    /\ mc_pc = [t \in MemThreads |-> "idle"]
    /\ mc_arg = [t \in MemThreads |-> NoWrite]

\* A thread calls read_block or write_block and arrives at "with self.lock".
MemCall(t) ==
    /\ mc_pc[t] = "idle"
    /\ mc_pc' = [mc_pc EXCEPT ![t] = "waiting"]
    /\ UNCHANGED <<mem_lock, mc_arg>>
    /\ UNCHANGED <<ramVars, simVars, memVars, remVars, usbVars, ramConcVars, simConcVars, runVars>>

\* "with self.lock": the thread takes the lock and starts simulate_latency.
MemAcquire(t) ==
    /\ mc_pc[t] = "waiting"
    /\ lock_can_acquire(mem_lock)
    /\ mem_lock' = t
    /\ mc_pc' = [mc_pc EXCEPT ![t] = "locked"]
    /\ UNCHANGED mc_arg
    /\ UNCHANGED <<ramVars, simVars, memVars, remVars, usbVars, ramConcVars, simConcVars, runVars>>

\* read_block from its range check to its return, which releases the lock.
MemLockedRead(t, block_num, failure) ==
    /\ mc_pc[t] = "locked"
    /\ LET r == mem_read_block(mem_storage, mem_cache, block_num, failure) IN
       /\ mem_cache' = r.cache
       /\ mem_last' = [op |-> "read_block", block |-> block_num, ok |-> r.ok,
                       ret |-> r.ret, hit |-> r.hit]
       /\ mem_touched' = IF r.ok THEN Touch(mem_touched, block_num) ELSE mem_touched
    /\ mem_lock' = 0
    /\ mc_pc' = [mc_pc EXCEPT ![t] = "idle"]
    /\ UNCHANGED <<mem_storage, mem_block_state, mem_written, mc_arg>>
    /\ UNCHANGED <<ramVars, simVars, remVars, usbVars, ramConcVars, simConcVars, runVars>>

\* write_block from its range check to "self.storage[block_num] = ...", or
\* to the return False of a failure, which releases the lock.
MemLockedWriteStorage(t, block_num, data, failure) ==
    /\ mc_pc[t] = "locked"
    /\ LET r == mem_write_block(mem_storage, mem_block_state, mem_cache, block_num, data,
                                failure)
       IN  IF r.ret
           THEN /\ mem_storage' = r.storage
                /\ mc_pc' = [mc_pc EXCEPT ![t] = "w_state"]
                /\ mc_arg' = [mc_arg EXCEPT ![t] = [block |-> block_num, data |-> data]]
                /\ UNCHANGED <<mem_lock, mem_last>>
           ELSE /\ mem_last' = [op |-> "write_block", block |-> block_num, ok |-> FALSE,
                                ret |-> <<>>, hit |-> FALSE]
                /\ mem_lock' = 0
                /\ mc_pc' = [mc_pc EXCEPT ![t] = "idle"]
                /\ UNCHANGED <<mem_storage, mc_arg>>
    /\ UNCHANGED <<mem_block_state, mem_cache, mem_written, mem_touched>>
    /\ UNCHANGED <<ramVars, simVars, remVars, usbVars, ramConcVars, simConcVars, runVars>>

\* write_block: self.block_state[block_num] = "used".
MemLockedWriteState(t) ==
    /\ mc_pc[t] = "w_state"
    /\ mem_block_state' = [mem_block_state EXCEPT ![mc_arg[t].block] = "used"]
    /\ mc_pc' = [mc_pc EXCEPT ![t] = "w_cache"]
    /\ UNCHANGED <<mem_storage, mem_cache, mem_last, mem_written, mem_touched, mem_lock,
                   mc_arg>>
    /\ UNCHANGED <<ramVars, simVars, remVars, usbVars, ramConcVars, simConcVars, runVars>>

\* write_block: _update_cache and return True, which releases the lock.
MemLockedWriteCache(t) ==
    /\ mc_pc[t] = "w_cache"
    /\ LET b == mc_arg[t].block
           d == mc_arg[t].data
       IN  /\ mem_cache' = update_cache(mem_cache, b, Prefix(d, MemBlockSize))
           /\ mem_last' = [op |-> "write_block", block |-> b, ok |-> TRUE,
                           ret |-> <<>>, hit |-> FALSE]
           /\ mem_written' = [mem_written EXCEPT ![b] = [written |-> TRUE, data |-> d]]
           /\ mem_touched' = Touch(mem_touched, b)
    /\ mem_lock' = 0
    /\ mc_pc' = [mc_pc EXCEPT ![t] = "idle"]
    /\ mc_arg' = [mc_arg EXCEPT ![t] = NoWrite]
    /\ UNCHANGED <<mem_storage, mem_block_state>>
    /\ UNCHANGED <<ramVars, simVars, remVars, usbVars, ramConcVars, simConcVars, runVars>>

NextMemConc ==
    \/ \E t \in MemThreads : MemCall(t)
    \/ \E t \in MemThreads : MemAcquire(t)
    \/ \E t \in MemThreads, b \in TwoBlockArgs, f \in BOOLEAN : MemLockedRead(t, b, f)
    \/ \E t \in MemThreads, b \in TwoBlockArgs, d \in MemWriteData, f \in BOOLEAN :
           MemLockedWriteStorage(t, b, d, f)
    \/ \E t \in MemThreads : MemLockedWriteState(t)
    \/ \E t \in MemThreads : MemLockedWriteCache(t)

(***************************************************************************)
(* RemovableMemoryDevice: block storage that can be ejected and inserted.  *)
(* Each call is one step; the draw of simulate_failure is an input.        *)
(***************************************************************************)

\* total_blocks = capacity // block_size.
RemTotalBlocks == 2
\* RemovableMemoryDevice(block_size=...).
RemBlockSize == 1

RemBlocks == 0..(RemTotalBlocks - 1)
\* The block_num arguments: every block and the first index out of range.
RemBlockArgs == 0..RemTotalBlocks
\* The data arguments of write_block: a block's worth and more than a block.
RemWriteData == {<<"a">>, <<"b", "a">>}
\* What read_block returns on a simulated failure.
ReadFailure == <<"[READ FAILURE]">>

\* write_block without the test of self.inserted.
rem_write_block_NoInsertedTest(inserted, storage, block_state, block_num, data, failure) ==
    IF block_num >= RemTotalBlocks
    THEN [storage |-> storage, block_state |-> block_state, ret |-> FALSE,
          outcome |-> "out_of_range", latency |-> FALSE]
    ELSE IF failure
    THEN [storage |-> storage, block_state |-> block_state, ret |-> FALSE,
          outcome |-> "failure", latency |-> TRUE]
    ELSE [storage |-> [storage EXCEPT ![block_num] = Prefix(data, RemBlockSize)],
          block_state |-> [block_state EXCEPT ![block_num] = "used"],
          ret |-> TRUE, outcome |-> "written", latency |-> TRUE]

\* write_block: the device after the call, the returned boolean, how the
\* call ended and whether it called simulate_latency.
rem_write_block(inserted, storage, block_state, block_num, data, failure) ==
    IF ~inserted
    THEN [storage |-> storage, block_state |-> block_state, ret |-> FALSE,
          outcome |-> "not_inserted", latency |-> FALSE]
    ELSE IF block_num >= RemTotalBlocks
    THEN [storage |-> storage, block_state |-> block_state, ret |-> FALSE,
          outcome |-> "out_of_range", latency |-> FALSE]
    ELSE IF failure
    THEN [storage |-> storage, block_state |-> block_state, ret |-> FALSE,
          outcome |-> "failure", latency |-> TRUE]
    ELSE [storage |-> [storage EXCEPT ![block_num] = Prefix(data, RemBlockSize)],
          block_state |-> [block_state EXCEPT ![block_num] = "used"],
          ret |-> TRUE, outcome |-> "written", latency |-> TRUE]

\* read_block: the returned string, how the call ended and whether it
\* called simulate_latency.
rem_read_block(inserted, storage, block_num, failure) ==
    IF ~inserted THEN [ret |-> <<>>, outcome |-> "not_inserted", latency |-> FALSE]
    ELSE IF block_num >= RemTotalBlocks
    THEN [ret |-> <<>>, outcome |-> "out_of_range", latency |-> FALSE]
    ELSE IF failure THEN [ret |-> ReadFailure, outcome |-> "failure", latency |-> TRUE]
    ELSE [ret |-> storage[block_num], outcome |-> "read", latency |-> TRUE]

InitRem ==
    /\ rem_inserted = TRUE
    /\ rem_storage = [b \in RemBlocks |-> <<>>]
    /\ rem_block_state = [b \in RemBlocks |-> "free"]
    /\ rem_last = [op |-> "init", block |-> 0, outcome |-> "init", ret |-> <<>>,
                   latency |-> FALSE]

RemEject ==
    /\ rem_inserted' = FALSE
    /\ rem_last' = [op |-> "eject", block |-> 0, outcome |-> "ejected", ret |-> <<>>,
                    latency |-> FALSE]
    /\ UNCHANGED <<rem_storage, rem_block_state>>
    /\ UNCHANGED <<ramVars, simVars, memVars, usbVars, concVars>>

RemInsert ==
    /\ rem_inserted' = TRUE
    /\ rem_last' = [op |-> "insert", block |-> 0, outcome |-> "inserted", ret |-> <<>>,
                    latency |-> FALSE]
    /\ UNCHANGED <<rem_storage, rem_block_state>>
    /\ UNCHANGED <<ramVars, simVars, memVars, usbVars, concVars>>

RemWriteBlock(block_num, data, failure) ==
    LET r == rem_write_block(rem_inserted, rem_storage, rem_block_state, block_num, data, failure) IN
    /\ rem_storage' = r.storage
    /\ rem_block_state' = r.block_state
    /\ rem_last' = [op |-> "write_block", block |-> block_num, outcome |-> r.outcome,
                    ret |-> <<>>, latency |-> r.latency]
    /\ UNCHANGED rem_inserted
    /\ UNCHANGED <<ramVars, simVars, memVars, usbVars, concVars>>

RemReadBlock(block_num, failure) ==
    LET r == rem_read_block(rem_inserted, rem_storage, block_num, failure) IN
    /\ rem_last' = [op |-> "read_block", block |-> block_num, outcome |-> r.outcome,
                    ret |-> r.ret, latency |-> r.latency]
    /\ UNCHANGED <<rem_inserted, rem_storage, rem_block_state>>
    /\ UNCHANGED <<ramVars, simVars, memVars, usbVars, concVars>>

NextRem ==
    \/ RemEject
    \/ RemInsert
    \/ \E b \in RemBlockArgs, d \in RemWriteData, f \in BOOLEAN : RemWriteBlock(b, d, f)
    \/ \E b \in RemBlockArgs, f \in BOOLEAN : RemReadBlock(b, f)

(***************************************************************************)
(* The two block devices side by side: an InternalMemoryDevice and a       *)
(* RemovableMemoryDevice, each called in any order.                        *)
(***************************************************************************)

\* The data written to the internal device in these runs.
BlockWriteData == {<<"a", "b">>}

NextBlock ==
    \/ \E b \in TwoBlockArgs, d \in BlockWriteData, f \in BOOLEAN : MemWriteBlock(b, d, f)
    \/ \E b \in TwoBlockArgs, f \in BOOLEAN : MemReadBlock(b, f)
    \/ NextRem

(***************************************************************************)
(* Driver_USB: the interrupt table, the USB driver and its control block,  *)
(* the driver table, and the IOManager thread with its queue.              *)
(*                                                                         *)
(* The state is the one the main program and the GUI build: one USBDriver  *)
(* (driver 1) on the interrupt table, registered for device_id 1, and the  *)
(* IOManager thread started. The worker thread is a process whose steps    *)
(* are the statements of IOManager.run between which another thread (the   *)
(* producer, the thread that triggers interrupts, the one that calls       *)
(* stop) can act.                                                          *)
(***************************************************************************)

\* A capacity at which a bounded operation_queue would turn requests away.
ClaimedCapacity == 2
\* IOOPeration objects created in a run: one more than that capacity.
MaxOps == ClaimedCapacity + 1
\* Queue(): maxsize is 0, which queue.Queue takes as "no limit".
QueueMaxsize == 0

OpIds == 1..MaxOps
\* The USBDriver objects.
DriverIds == {1}
\* The USBDriver objects constructed later on the same InterruptTable.
LaterDriverIds == {2}
\* The device_id arguments of add_io_operation: 1 has a driver, 2 has none.
UsbDeviceIds == {1, 2}
\* The names in interrupt_handlers.
Events == {"USB_INSERT", "USB_REMOVE"}
\* The names trigger_interrupt is called with: the two events, and the name
\* with a trailing blank that the main program triggers.
TriggeredEvents == Events \cup {"USB_REMOVE "}
\* data_size_mb of the operations: a write of 200 MB, and a negative size,
\* for which time.sleep raises ValueError.
DataSizes == {200, -200}

\* on_usb_remove setting the flag as on_usb_insert does.
on_usb_remove_SetsTrue(connected, driver) == [connected EXCEPT ![driver] = TRUE]

\* on_usb_insert: is_connected of the driver's control block becomes True.
on_usb_insert(connected, driver) == [connected EXCEPT ![driver] = TRUE]
\* on_usb_remove: is_connected of the driver's control block becomes False.
on_usb_remove(connected, driver) == [connected EXCEPT ![driver] = FALSE]

\* trigger_interrupt: is_connected after the handler registered for the
\* event, if any, has run.
trigger_interrupt(handlers, connected, event) ==
    IF event \in DOMAIN handlers /\ handlers[event] # 0
    THEN IF event = "USB_INSERT" THEN on_usb_insert(connected, handlers[event])
         ELSE on_usb_remove(connected, handlers[event])
    ELSE connected

\* get_driver answering with driver 1 for a device_id that is not in the table.
get_driver_Default(table, device_id) ==
    IF device_id \in DOMAIN table THEN table[device_id] ELSE 1

\* DeviceDriverTable.get_driver: the driver, 0 for None.
get_driver(table, device_id) == IF device_id \in DOMAIN table THEN table[device_id] ELSE 0

\* perform_operation up to the call of time.sleep: "not_connected" when it
\* returns at the connection test, "raised" when time.sleep refuses a
\* negative duration (ValueError, which the except OSError clause does not
\* catch), "transfer" when the sleep begins.
perform_operation_begin(connected, data_size_mb) ==
    IF ~connected THEN "not_connected"
    ELSE IF data_size_mb < 0 THEN "raised"
    ELSE "transfer"

\* Queue.get taking the item put last.
queue_get_Last(q) == [item |-> q[Len(q)], queue |-> SubSeq(q, 1, Len(q) - 1)]

\* Queue.get on a queue that is not empty: the item put first (the queue
\* holds a collections.deque and get does popleft), and the queue left.
queue_get(q) == [item |-> Head(q), queue |-> Tail(q)]

\* run without its except clause: an exception ends the thread.
run_after_perform_NoExcept(r) ==
    CASE r = "not_connected" -> "task_done"
      [] r = "raised" -> "exited"
      [] OTHER -> "transfer"

\* run: where the worker goes when perform_operation has begun. A return at
\* the connection test goes on to task_done; an exception leaves the try
\* block, is swallowed by the bare except, and the loop tests running
\* again; otherwise the worker is inside time.sleep.
run_after_perform(r) ==
    CASE r = "not_connected" -> "task_done"
      [] r = "raised" -> "test"
      [] OTHER -> "transfer"

\* InterruptTable.register_interrupt_handler keeping the first handler.
register_interrupt_handler_KeepFirst(handlers, interrupt_type, handler) ==
    IF interrupt_type \in DOMAIN handlers /\ handlers[interrupt_type] # 0
    THEN handlers
    ELSE [e \in DOMAIN handlers \cup {interrupt_type} |->
             IF e = interrupt_type THEN handler ELSE handlers[e]]

\* InterruptTable.register_interrupt_handler: a dictionary assignment.
register_interrupt_handler(handlers, interrupt_type, handler) ==
    [e \in DOMAIN handlers \cup {interrupt_type} |->
        IF e = interrupt_type THEN handler ELSE handlers[e]]

InitUSB ==
    /\ interrupt_handlers = [e \in Events |-> 1]
    /\ is_connected = [d \in DriverIds |-> TRUE]
    /\ drivers = [d \in {1} |-> 1]
    /\ operation_queue = <<>>
    /\ unfinished_tasks = 0
    /\ running = TRUE
    /\ w_pc = "test"
    /\ w_cur = [id |-> 0, device_id |-> 0, data_size_mb |-> 0]
    /\ next_id = 1
    /\ op_outcome = [i \in OpIds |-> "none"]
    /\ removed_midflight = {}
    /\ last_hotplug = "none"
    /\ pending_at_stop = {}
    /\ deliver_log = <<>>
    /\ last_built = 1
    /\ stopped_midflight = {}

\* add_io_operation: Queue.put, which waits only on a queue with a maxsize.
AddIOOperation(device_id, data_size_mb) ==
    /\ next_id <= MaxOps
    /\ QueueMaxsize > 0 => Len(operation_queue) < QueueMaxsize
    /\ operation_queue' = Append(operation_queue,
                                 [id |-> next_id, device_id |-> device_id,
                                  data_size_mb |-> data_size_mb])
    /\ unfinished_tasks' = unfinished_tasks + 1
    /\ next_id' = next_id + 1
    /\ op_outcome' = [op_outcome EXCEPT ![next_id] = "queued"]
    /\ UNCHANGED <<interrupt_handlers, is_connected, drivers, running, w_pc, w_cur,
                   removed_midflight, last_hotplug>>
    /\ UNCHANGED <<pending_at_stop, deliver_log, last_built, stopped_midflight>>
    /\ UNCHANGED <<ramVars, simVars, memVars, remVars, concVars>>

\* InterruptTable.trigger_interrupt(event), from any thread.
TriggerInterrupt(event) ==
    /\ is_connected' = trigger_interrupt(interrupt_handlers, is_connected, event)
    /\ last_hotplug' = IF event \in Events THEN event ELSE last_hotplug
    /\ removed_midflight' =
           IF event = "USB_REMOVE" /\ w_pc = "transfer"
              /\ get_driver(drivers, w_cur.device_id) = interrupt_handlers[event]
           THEN removed_midflight \cup {w_cur.id}
           ELSE removed_midflight
    /\ UNCHANGED <<interrupt_handlers, drivers, operation_queue, unfinished_tasks, running,
                   w_pc, w_cur, next_id, op_outcome>>
    /\ UNCHANGED <<pending_at_stop, deliver_log, last_built, stopped_midflight>>
    /\ UNCHANGED <<ramVars, simVars, memVars, remVars, concVars>>

\* IOManager.stop().
Stop ==
    /\ running' = FALSE
    /\ pending_at_stop' = pending_at_stop \cup {operation_queue[i].id : i \in 1..Len(operation_queue)}
    /\ UNCHANGED <<interrupt_handlers, is_connected, drivers, operation_queue,
                   unfinished_tasks, w_pc, w_cur, next_id, op_outcome, removed_midflight,
                   last_hotplug>>
    /\ stopped_midflight' = IF w_pc = "transfer" THEN stopped_midflight \cup {w_cur.id}
                            ELSE stopped_midflight
    /\ UNCHANGED <<deliver_log, last_built>>
    /\ UNCHANGED <<ramVars, simVars, memVars, remVars, concVars>>

\* run looping without the test of running.
WorkerTest_IgnoresRunning ==
    /\ w_pc = "test"
    /\ w_pc' = "get"
    /\ UNCHANGED <<interrupt_handlers, is_connected, drivers, operation_queue,
                   unfinished_tasks, running, w_cur, next_id, op_outcome,
                   removed_midflight, last_hotplug>>
    /\ UNCHANGED <<pending_at_stop, deliver_log, last_built, stopped_midflight>>
    /\ UNCHANGED <<ramVars, simVars, memVars, remVars, concVars>>

\* run: the test of the while loop.
WorkerTest ==
    /\ w_pc = "test"
    /\ w_pc' = IF running THEN "get" ELSE "exited"
    /\ UNCHANGED <<interrupt_handlers, is_connected, drivers, operation_queue,
                   unfinished_tasks, running, w_cur, next_id, op_outcome,
                   removed_midflight, last_hotplug>>
    /\ UNCHANGED <<pending_at_stop, deliver_log, last_built, stopped_midflight>>
    /\ UNCHANGED <<ramVars, simVars, memVars, remVars, concVars>>

\* run: operation_queue.get(timeout = 1) and get_driver. An empty queue
\* raises queue.Empty after the wait, which the bare except swallows.
WorkerGet ==
    /\ w_pc = "get"
    /\ \/ /\ operation_queue = <<>>
          /\ w_pc' = "test"
          /\ UNCHANGED <<operation_queue, w_cur, op_outcome, deliver_log>>
       \/ /\ operation_queue # <<>>
          /\ LET g == queue_get(operation_queue) IN
             /\ operation_queue' = g.queue
             /\ w_cur' = g.item
             /\ deliver_log' = Append(deliver_log, g.item.id)
             /\ IF get_driver(drivers, g.item.device_id) # 0
                THEN /\ w_pc' = "perform"
                     /\ UNCHANGED op_outcome
                ELSE /\ w_pc' = "task_done"
                     /\ op_outcome' = [op_outcome EXCEPT ![g.item.id] = "no_driver"]
    /\ UNCHANGED <<interrupt_handlers, is_connected, drivers, unfinished_tasks, running,
                   next_id, removed_midflight, last_hotplug>>
    /\ UNCHANGED <<pending_at_stop, last_built, stopped_midflight>>
    /\ UNCHANGED <<ramVars, simVars, memVars, remVars, concVars>>

\* perform_operation from its connection test to the call of time.sleep.
\* An exception leaves run's try block before task_done.
WorkerPerform ==
    /\ w_pc = "perform"
    /\ LET driver == get_driver(drivers, w_cur.device_id)
           r == perform_operation_begin(is_connected[driver], w_cur.data_size_mb)
       IN  /\ w_pc' = run_after_perform(r)
           /\ op_outcome' = [op_outcome EXCEPT ![w_cur.id] =
                                 IF r = "transfer" THEN "started" ELSE r]
    /\ UNCHANGED <<interrupt_handlers, is_connected, drivers, operation_queue,
                   unfinished_tasks, running, w_cur, next_id, removed_midflight,
                   last_hotplug>>
    /\ UNCHANGED <<pending_at_stop, deliver_log, last_built, stopped_midflight>>
    /\ UNCHANGED <<ramVars, simVars, memVars, remVars, concVars>>

\* A transfer that a stop() cuts short: the worker leaves without completing it.
WorkerTransferEnd_Preempted ==
    /\ w_pc = "transfer"
    /\ w_pc' = IF running THEN "task_done" ELSE "exited"
    /\ op_outcome' = [op_outcome EXCEPT ![w_cur.id] =
                          IF running THEN "completed" ELSE "started"]
    /\ UNCHANGED <<interrupt_handlers, is_connected, drivers, operation_queue,
                   unfinished_tasks, running, w_cur, next_id, removed_midflight,
                   last_hotplug>>
    /\ UNCHANGED <<pending_at_stop, deliver_log, last_built, stopped_midflight>>
    /\ UNCHANGED <<ramVars, simVars, memVars, remVars, concVars>>

\* perform_operation: time.sleep returns and the completion is printed.
WorkerTransferEnd ==
    /\ w_pc = "transfer"
    /\ w_pc' = "task_done"
    /\ op_outcome' = [op_outcome EXCEPT ![w_cur.id] = "completed"]
    /\ UNCHANGED <<interrupt_handlers, is_connected, drivers, operation_queue,
                   unfinished_tasks, running, w_cur, next_id, removed_midflight,
                   last_hotplug>>
    /\ UNCHANGED <<pending_at_stop, deliver_log, last_built, stopped_midflight>>
    /\ UNCHANGED <<ramVars, simVars, memVars, remVars, concVars>>

\* run: operation_queue.task_done().
WorkerTaskDone ==
    /\ w_pc = "task_done"
    /\ unfinished_tasks' = unfinished_tasks - 1
    /\ w_pc' = "test"
    /\ UNCHANGED <<interrupt_handlers, is_connected, drivers, operation_queue, running,
                   w_cur, next_id, op_outcome, removed_midflight, last_hotplug>>
    /\ UNCHANGED <<pending_at_stop, deliver_log, last_built, stopped_midflight>>
    /\ UNCHANGED <<ramVars, simVars, memVars, remVars, concVars>>

\* A further USBDriver(DeviceControlBlock(d), interrupt_table) on the same
\* InterruptTable: __init__ registers on_usb_insert and on_usb_remove of the
\* new driver under the two event names.
USBDriverInit(d) ==
    /\ d \notin DOMAIN is_connected
    /\ is_connected' = [x \in DOMAIN is_connected \cup {d} |->
                            IF x = d THEN TRUE ELSE is_connected[x]]
    /\ interrupt_handlers' =
           register_interrupt_handler(
               register_interrupt_handler(interrupt_handlers, "USB_INSERT", d),
               "USB_REMOVE", d)
    /\ last_built' = d
    /\ UNCHANGED <<drivers, operation_queue, unfinished_tasks, running, w_pc, w_cur,
                   next_id, op_outcome, removed_midflight, last_hotplug,
                   pending_at_stop, deliver_log, stopped_midflight>>
    /\ UNCHANGED <<ramVars, simVars, memVars, remVars, concVars>>

NextUSB ==
    \/ \E d \in UsbDeviceIds, s \in DataSizes : AddIOOperation(d, s)
    \/ \E e \in TriggeredEvents : TriggerInterrupt(e)
    \/ Stop
    \/ WorkerTest
    \/ WorkerGet
    \/ WorkerPerform
    \/ WorkerTransferEnd
    \/ WorkerTaskDone

\* The steps of the worker thread.
Worker ==
    \/ WorkerTest
    \/ WorkerGet
    \/ WorkerPerform
    \/ WorkerTransferEnd
    \/ WorkerTaskDone

\* The program with a second driver constructed at some time.
NextUSBTwoDrivers ==
    \/ NextUSB
    \/ \E d \in LaterDriverIds : USBDriverInit(d)

(***************************************************************************)
(* Initial state and specifications                                        *)
(***************************************************************************)

Init ==
    /\ InitRAM
    /\ InitSim
    /\ InitMem
    /\ InitRem
    /\ InitUSB
    /\ InitRAMConc
    /\ InitRun
    /\ InitSimConc
    /\ InitMemConc

SpecRAM == Init /\ [][NextRAM]_vars
SpecRAMConc == Init /\ [][NextRAMConc]_vars
SpecSim == Init /\ [][NextSim]_vars
SpecSimConc == Init /\ [][NextSimConc]_vars
SpecRun == Init /\ [][NextRun]_vars
SpecMem == Init /\ [][NextMem]_vars
SpecMemConc == Init /\ [][NextMemConc]_vars
SpecRem == Init /\ [][NextRem]_vars
SpecBlock == Init /\ [][NextBlock]_vars
SpecUSB == Init /\ [][NextUSB]_vars
\* The worker is a daemon thread that the interpreter keeps scheduling: its
\* timed get, its sleep and its other statements all return.
SpecUSBLive == Init /\ [][NextUSB]_vars /\ WF_vars(Worker)
SpecUSBTwoDrivers == Init /\ [][NextUSBTwoDrivers]_vars

(***************************************************************************)
(* Claims about RAMManager (SpecRAM)                                       *)
(***************************************************************************)

\* C1: whatever allocate and free calls with non-negative amounts are made,
\* starting from used = 0, used stays within 0..size.
C1_UsedWithinSize == 0 <= ram_used /\ ram_used <= RamSize

\* C1 witness: a free of more than is in use has been floored at zero, after
\* memory had been allocated.
C1_Witness_FreeFloored ==
    /\ ram_call.op = "free"
    /\ ram_call.before > 0
    /\ ram_call.amount > ram_call.before
    /\ ram_used = 0

\* C2: allocate(amount) returns True exactly when used + amount <= size and
\* then used has grown by amount; otherwise it returns False and used is as
\* before the call.
C2_AllocateContract ==
    ram_call.op = "allocate" =>
        /\ ram_call.ret = (ram_call.before + ram_call.amount <= RamSize)
        /\ ram_call.ret => ram_used = ram_call.before + ram_call.amount
        /\ ~ram_call.ret => ram_used = ram_call.before

\* C2 witness: with nothing in use, a request for twice the size of the
\* memory has been rejected and used is still 0.
C2_Witness_TooLargeRejected ==
    /\ ram_call.op = "allocate"
    /\ ram_call.before = 0
    /\ ram_call.amount = 2 * RamSize
    /\ ~ram_call.ret
    /\ ram_used = 0

(***************************************************************************)
(* Claims about DeviceDriverSimulator (SpecSim)                            *)
(***************************************************************************)

\* C3: the queue never holds more than IO_QUEUE_SIZE requests, and an
\* enqueue_io made while it holds IO_QUEUE_SIZE requests is rejected and
\* leaves the queue, contents and order, as it was.
C3_QueueBounded ==
    [][/\ Len(io_queue) <= IO_QUEUE_SIZE
       /\ Len(io_queue') <= IO_QUEUE_SIZE
       /\ (sim_last'.op = "enqueue_io" /\ Len(io_queue) >= IO_QUEUE_SIZE) =>
              (io_queue' = io_queue /\ sim_last'.outcome = "rejected")]_vars

\* C3 witness: an enqueue_io has been rejected on a full queue.
C3_Witness_Rejected ==
    /\ sim_last = [op |-> "enqueue_io", outcome |-> "rejected"]
    /\ Len(io_queue) = IO_QUEUE_SIZE

\* C5: a handle_io whose head request targets a busy device puts that same
\* request at the tail, behind the requests that were queued, keeps the
\* queue's length, and leaves the devices' buffers and busy flags and the
\* RAM counter as they were.
C5_BusyRequeue ==
    [][(/\ sim_last'.op = "handle_io"
        /\ io_queue # <<>>
        /\ Head(io_queue).device_id \in DeviceSubclasses
        /\ dev_busy[Head(io_queue).device_id]) =>
           /\ io_queue' = Append(Tail(io_queue), Head(io_queue))
           /\ Len(io_queue') = Len(io_queue)
           /\ dev_buffer' = dev_buffer
           /\ dev_busy' = dev_busy
           /\ sim_ram_used' = sim_ram_used]_vars

\* C5 witness: a request has been requeued behind a different request.
C5_Witness_Requeued ==
    /\ sim_last = [op |-> "handle_io", outcome |-> "requeued"]
    /\ Len(io_queue) >= 2
    /\ dev_busy[io_queue[Len(io_queue)].device_id]
    /\ io_queue[1] # io_queue[Len(io_queue)]

(***************************************************************************)
(* Claims about InternalMemoryDevice (SpecMem)                             *)
(***************************************************************************)

\* C6: a successful read_block(i) returns the data of the most recent
\* successful write_block(i, d), cut to block_size, also when block i was in
\* the cache at the time of that write.
C6_ReadYourWrites ==
    (/\ mem_last.op = "read_block"
     /\ mem_last.ok
     /\ mem_written[mem_last.block].written) =>
        mem_last.ret = Prefix(mem_written[mem_last.block].data, MemBlockSize)

\* The last min(n, Len(s)) elements of s.
Suffix(s, n) == SubSeq(s, Len(s) - Min(n, Len(s)) + 1, Len(s))

\* C7: the cache never holds more than cache_size entries; its keys are the
\* cache_size most recently touched blocks in order of recency (all the
\* touched blocks while there are fewer); an insertion into a full cache
\* evicts the least recently touched entry and no other; a hit moves the
\* entry to the most recently used end.
C7_CacheIsLRU ==
    [][LET keys == cache_keys(mem_cache)
           keys2 == cache_keys(mem_cache')
           b == mem_last'.block
           IsOther(k) == k # b
       IN  /\ Len(mem_cache') <= CacheSize
           /\ keys2 = Suffix(mem_touched', CacheSize)
           /\ (mem_last'.ok /\ ~cache_has(mem_cache, b) /\ Len(mem_cache) = CacheSize) =>
                  keys2 = Append(Tail(keys), b)
           /\ (mem_last'.ok /\ cache_has(mem_cache, b)) =>
                  keys2 = Append(SelectSeq(keys, IsOther), b)]_vars

\* C7 witness: more blocks than the cache holds have been touched, the
\* cache is full, and the last call found its block in the cache, away from
\* the most recently used end.
C7_Witness_HitAfterEviction ==
    /\ Len(mem_touched) > CacheSize
    /\ Len(mem_cache) = CacheSize
    /\ mem_last.ok
    /\ mem_last.op = "write_block"
    /\ mem_cache[Len(mem_cache)].key = mem_last.block
    /\ mem_cache[Len(mem_cache)].data # mem_storage[mem_last.block]

(***************************************************************************)
(* Claims about RemovableMemoryDevice (SpecRem)                            *)
(***************************************************************************)

\* C10: between an eject() and the next insert() every read_block and
\* write_block ends as not-inserted, without simulating latency and with
\* storage and block_state as they were; and eject() and insert() leave
\* storage and block_state as they were.
C10_EjectedFailsFast ==
    [][/\ (~rem_inserted /\ rem_last'.op \in {"read_block", "write_block"}) =>
              /\ rem_last'.outcome = "not_inserted"
              /\ ~rem_last'.latency
              /\ rem_storage' = rem_storage
              /\ rem_block_state' = rem_block_state
       /\ rem_last'.op \in {"eject", "insert"} =>
              /\ rem_storage' = rem_storage
              /\ rem_block_state' = rem_block_state]_vars

\* C10 witness: the device holds written blocks, has been ejected, and a
\* write_block has just ended as not-inserted.
C10_Witness_WriteWhileEjected ==
    /\ ~rem_inserted
    /\ rem_last.op = "write_block"
    /\ rem_last.outcome = "not_inserted"
    /\ rem_last.block \in RemBlocks
    /\ rem_block_state[rem_last.block] = "used"

(***************************************************************************)
(* Claims about Driver_USB (SpecUSB)                                       *)
(***************************************************************************)

\* C4: add_io_operation turns a request away once operation_queue has
\* reached its capacity, so the queue never holds more requests than that
\* capacity.
C4_QueueWithinCapacity == Len(operation_queue) <= ClaimedCapacity

\* C8: an operation during whose transfer the device was disconnected
\* (USB_REMOVE handled between the connection test and the end of the
\* sleep) is not reported as completed.
C8_NoCompletionAfterRemoval ==
    \A i \in removed_midflight : op_outcome[i] # "completed"

\* C9: a perform_operation entered when the last hot-plug event handled is
\* USB_REMOVE reports not-connected and returns: no transfer is simulated
\* and no completion is reported for the operation, then or later; and one
\* entered when the last event handled is USB_INSERT is performed (its
\* transfer begins, unless time.sleep refuses its duration).
C9_DisconnectedNotPerformed ==
    [][/\ (w_pc = "perform" /\ w_pc' # "perform" /\ last_hotplug = "USB_REMOVE") =>
              /\ op_outcome'[w_cur.id] = "not_connected"
              /\ w_pc' = "task_done"
       /\ (w_pc = "perform" /\ w_pc' # "perform" /\ last_hotplug = "USB_INSERT") =>
              /\ op_outcome'[w_cur.id] \in {"started", "raised"}
              /\ w_cur.data_size_mb >= 0 => w_pc' = "transfer"
       /\ \A i \in OpIds : op_outcome[i] = "not_connected" => op_outcome'[i] = "not_connected"
      ]_vars

\* C9 witness: an operation was refused as not connected, and an operation
\* queued behind it has been performed to its end after a USB_INSERT.
C9_Witness_RefusedThenPerformed ==
    \E i, j \in OpIds :
        /\ i < j
        /\ op_outcome[i] = "not_connected"
        /\ op_outcome[j] = "completed"
        /\ last_hotplug = "USB_INSERT"

(***************************************************************************)
(* Claims about the IOManager worker thread and the InterruptTable         *)
(* (SpecUSB, SpecUSBLive, SpecUSBTwoDrivers)                               *)
(***************************************************************************)

\* The operations the worker has taken from the queue.
Taken == {deliver_log[k] : k \in 1..Len(deliver_log)}
\* The operations perform_operation was called with.
Performed == {i \in OpIds : op_outcome[i] \in {"not_connected", "started", "completed", "raised"}}
\* Operation i waits in the queue, for a device_id that has a driver.
QueuedForDriver(i) ==
    \E k \in 1..Len(operation_queue) :
        /\ operation_queue[k].id = i
        /\ operation_queue[k].device_id \in DOMAIN drivers

\* C11: when the worker takes a request whose device_id is not in the driver
\* table, it reports "no driver" and goes on to task_done without calling any
\* driver (no control block changes, the request is never performed later),
\* and the worker keeps running: a request waiting behind it for a registered
\* device is passed to its driver, unless stop() is called first.
C11_NoDriverSkipped ==
    /\ [][/\ (/\ w_pc = "get" /\ w_pc' # "get" /\ operation_queue # <<>>
              /\ Head(operation_queue).device_id \notin DOMAIN drivers)
             => /\ op_outcome'[Head(operation_queue).id] = "no_driver"
                /\ w_pc' = "task_done"
                /\ operation_queue' = Tail(operation_queue)
                /\ is_connected' = is_connected
          /\ \A i \in OpIds : op_outcome[i] = "no_driver" => op_outcome'[i] = "no_driver"]_vars
    /\ \A j \in OpIds :
           ((\E i \in 1..(j - 1) : op_outcome[i] = "no_driver") /\ QueuedForDriver(j))
               ~> (j \in Performed \/ ~running)

\* C11 witness: a request without a driver was skipped and a request put after
\* it was completed by its driver.
C11_Witness_LaterRequestCompleted ==
    \E i, j \in OpIds : i < j /\ op_outcome[i] = "no_driver" /\ op_outcome[j] = "completed"

\* C12: a request that fails (no driver, a device that is not connected, an
\* exception out of perform_operation) never ends the worker: as long as
\* stop() has not been called the worker is at a statement of its loop, from
\* which it goes on to the next get.
C12_WorkerSurvivesFailures ==
    running => w_pc \in {"test", "get", "perform", "transfer", "task_done"}

\* C12 witness: perform_operation raised for one request, stop() was not
\* called, and the worker is at get again with a request waiting.
C12_Witness_AtGetAfterException ==
    /\ \E i \in OpIds : op_outcome[i] = "raised"
    /\ running
    /\ w_pc = "get"
    /\ operation_queue # <<>>

\* C13 as stated: no request that was in the queue at a call of stop() is
\* passed to perform_operation afterwards.
C13_PendingAtStopNeverPerformed == pending_at_stop \cap Performed = {}

\* C13 amended: of the requests that were in the queue at a call of stop(),
\* at most one is taken by the worker afterwards (the head, when the worker
\* had passed the test of running before stop() was called); the others stay
\* in the queue.
C13_AtMostOnePendingTaken ==
    /\ Cardinality(pending_at_stop \cap Taken) <= 1
    /\ \A i \in pending_at_stop \ Taken :
           \E k \in 1..Len(operation_queue) : operation_queue[k].id = i

\* C13 witness: the worker has exited; one request that was in the queue at
\* stop() was completed and another one is still in the queue.
C13_Witness_OneTakenOneLost ==
    /\ w_pc = "exited"
    /\ \E i, j \in pending_at_stop :
           /\ op_outcome[i] = "completed"
           /\ op_outcome[j] = "queued"
           /\ j \notin Taken

\* C16: the handler of an event name is the one registered last. With two
\* drivers built on one InterruptTable, both event names belong to the driver
\* built last; no step changes is_connected of another driver; and a handled
\* USB_INSERT or USB_REMOVE leaves is_connected of the driver built last True
\* or False.
C16_LastRegistrationWins ==
    /\ [](\A e \in Events : interrupt_handlers[e] = last_built)
    /\ [][/\ \A d \in DOMAIN is_connected :
                 d # last_built => is_connected'[d] = is_connected[d]
          /\ last_hotplug' # last_hotplug
                 => is_connected'[last_built] = (last_hotplug' = "USB_INSERT")]_vars

\* C16 witness: after the second driver was built a USB_REMOVE was handled:
\* the second driver is disconnected and the first is still connected.
C16_Witness_OnlySecondDriverRemoved ==
    /\ last_built = 2
    /\ last_hotplug = "USB_REMOVE"
    /\ is_connected[2] = FALSE
    /\ is_connected[1] = TRUE

\* C17: the worker takes the requests in the order add_io_operation accepted
\* them, each one once (the operations are numbered in that order, so the
\* worker's log is 1, 2, ..., k); and an accepted request is taken and
\* performed or reported "no driver", unless stop() is called.
C17_FifoOnceEventually ==
    /\ [](deliver_log = [k \in 1..Len(deliver_log) |-> k])
    /\ \A i \in OpIds :
           (op_outcome[i] = "queued")
               ~> (i \in Performed \/ op_outcome[i] = "no_driver" \/ ~running)

\* C17 witness: all the operations of a run were taken, stop() was not called,
\* and the last one is completed.
C17_Witness_AllDelivered ==
    /\ Len(deliver_log) = MaxOps
    /\ running
    /\ op_outcome[MaxOps] = "completed"

(***************************************************************************)
(* Claims about RAMManager called from several threads (SpecRAMConc)       *)
(***************************************************************************)

\* C20: allocate's test and increment are one exclusive section: an allocate
\* that returns True has raised used by exactly its amount (no increment is
\* lost to another thread's update) and has left used within size.
C20_AllocateIsAtomic ==
    [][\A t \in RamThreads :
           (rc_pc[t] = "a_store" /\ rc_pc'[t] = "idle")
               => /\ ram_used' = ram_used + rc_amount[t]
                  /\ ram_used' <= RamSize]_vars

(***************************************************************************)
(* Claims about the busy flag and the buffers of DeviceDriverSimulator     *)
(* (SpecSimConc, SpecSim)                                                  *)
(***************************************************************************)

\* C14: under any interleaving of the callers of handle_io, a device never has
\* two requests in service (between _device_driver setting busy and
\* _interrupt_handler clearing it), and a device with a request in service is
\* busy.
C14_OneInServicePerDevice ==
    \A d \in DeviceSubclasses :
        /\ in_service[d] <= 1
        /\ in_service[d] = 1 => dev_busy[d]

\* C19: the completion interrupt frees exactly the bytes that ram.allocate
\* granted to the request: ram.used falls by that amount, by nothing when
\* allocate refused.
C19_InterruptFreesWhatWasAllocated ==
    [][\A d \in DeviceSubclasses :
           in_service'[d] < in_service[d]
               => sim_ram_used' = sim_ram_used - buf_allocated[d]]_vars

(***************************************************************************)
(* Claims about InternalMemoryDevice called from several threads           *)
(* (SpecMemConc)                                                           *)
(***************************************************************************)

\* Thread t is inside read_block or write_block, between "with self.lock"
\* and the return.
InsideBlockCall(t) == mc_pc[t] \in {"locked", "w_state", "w_cache"}

\* C15: read_block and write_block run in mutual exclusion: at most one thread
\* is inside a call, that thread holds the lock, and a thread that is about to
\* make its range check never finds another thread's write_block half done
\* (storage written, block_state or cache not yet).
C15_BlockCallsExclusive ==
    /\ \A t, u \in MemThreads : InsideBlockCall(t) /\ InsideBlockCall(u) => t = u
    /\ \A t \in MemThreads : InsideBlockCall(t) => mem_lock = t
    /\ \A t, u \in MemThreads :
           (mc_pc[t] = "locked" /\ u # t) => mc_pc[u] \notin {"w_state", "w_cache"}

\* C15 witness: one thread is in the middle of write_block (storage written,
\* cache not yet) while another has called and waits at "with self.lock".
C15_Witness_WaitingDuringWrite ==
    \E t, u \in MemThreads :
        /\ mc_pc[t] = "w_cache"
        /\ mc_pc[u] = "waiting"
        /\ mem_storage[mc_arg[t].block] # <<>>

(***************************************************************************)
(* Claims about failing calls of the two block devices (SpecBlock)         *)
(***************************************************************************)

\* C18: a write_block or read_block that fails (block index out of range, a
\* simulated fault, or for the removable device no medium) leaves storage and
\* block_state as they were, and for the internal device the cache, contents
\* and order.
C18_FailureChangesNothing ==
    [][/\ (mem_last'.op \in {"write_block", "read_block"} /\ ~mem_last'.ok)
              => UNCHANGED <<mem_storage, mem_block_state, mem_cache>>
       /\ (/\ rem_last'.op \in {"write_block", "read_block"}
           /\ rem_last'.outcome \in {"not_inserted", "out_of_range", "failure"})
              => UNCHANGED <<rem_storage, rem_block_state, rem_inserted>>]_vars

\* C18 witness: the last call of each device failed on a simulated fault at a
\* block in range, with two blocks in the internal device's cache and a used
\* block in the removable device.
C18_Witness_FaultsOnWrittenDevices ==
    /\ mem_last.op = "write_block" /\ ~mem_last.ok /\ mem_last.block < MemTotalBlocks
    /\ Len(mem_cache) >= 2
    /\ rem_last.op = "write_block" /\ rem_last.outcome = "failure"
    /\ \E b \in RemBlocks : rem_block_state[b] = "used"

(***************************************************************************)
(* Claims about stop() and the accounting of finished work                 *)
(* (SpecUSBLive, SpecUSB)                                                  *)
(***************************************************************************)

\* C21: once stop() has been called the worker leaves its loop (the thread is
\* scheduled and the sleep of a transfer returns), and an operation that was
\* executing when stop() was called is not cut short: it is executing or
\* completed at any later time, and it is completed when the worker has left.
C21_StopCooperativeAndEffective ==
    /\ (~running) ~> (w_pc = "exited")
    /\ [](\A i \in stopped_midflight :
              /\ op_outcome[i] \in {"started", "completed"}
              /\ w_pc = "exited" => op_outcome[i] = "completed")
    /\ [][w_pc = "exited" => w_pc' = "exited"]_vars

\* C21 witness: stop() was called during the transfer of an operation, the
\* operation was completed, and the worker has left its loop.
C21_Witness_ExitedAfterCompleting ==
    /\ w_pc = "exited"
    /\ \E i \in stopped_midflight : op_outcome[i] = "completed"

\* C23: the unfinished-task count of operation_queue is the number of requests
\* put and not yet fully handled: those in the queue and the one the worker
\* has taken and not yet finished with.
C23_UnfinishedTasksAccounted ==
    unfinished_tasks = Len(operation_queue)
                       + (IF w_pc \in {"perform", "transfer", "task_done"} THEN 1 ELSE 0)

(***************************************************************************)
(* Claims about DeviceDriverSimulator.run and enqueue_io (SpecRun, SpecSim) *)
(***************************************************************************)

\* C22: while no busy flag is set from outside, a run call that has ended has
\* emptied the queue with as many handle_io calls as there were requests when
\* it was called, and has left every device idle with an empty buffer.
C22_RunEmptiesQueue ==
    (run_pc \in {"done", "raised"} /\ ~busy_outside)
        => /\ io_queue = <<>>
           /\ run_calls = run_initial
           /\ \A d \in DeviceSubclasses : ~dev_busy[d] /\ dev_buffer[d] = <<>>

\* C24: a call of enqueue_io either appends one request and returns, or leaves
\* io_queue as it was; and no handle_io call ends in IndexError with its
\* request already taken from the queue.
C24_EnqueueAllOrNothing ==
    [][/\ sim_last'.op = "enqueue_io"
              => IF sim_last'.outcome = "enqueued"
                 THEN Len(io_queue') = Len(io_queue) + 1
                 ELSE io_queue' = io_queue
       /\ sim_last'.op = "handle_io" => sim_last'.outcome # "IndexError"]_vars

=============================================================================
